---- MODULE Spec2Model ----
(***************************************************************************)
(* HolaTokens.c: a concordance of the words of standard input.  main reads *)
(* the input line by line, normalises each line in place, splits it with   *)
(* strtok_r and calls add_result(hash(token), token, " <line>") for every  *)
(* token; at end of input the table is sorted by word and printed.         *)
(*                                                                         *)
(* Strings are sequences of byte values (ASCII codes).  The table keeps    *)
(* uthash's application order, so it is a sequence of records.             *)
(***************************************************************************)
EXTENDS Integers, Sequences, FiniteSets, TLC

VARIABLES pc, line_number, results, token, saveptr, raw, nread, lineCalls,
          occ, output

vars == <<pc, line_number, results, token, saveptr, raw, nread, lineCalls,
          occ, output>>

(* ---------------- compiled-in limits ---------------- *)

LONGEST_WORD_LEN == 45

LONGEST_LINE_SUMMARY_LEN == 16535

(* ---------------- bound of the model ---------------- *)

\* number of lines the input may hold
MaxLines == 4

(* ---------------- the inputs ---------------- *)

\* "pneumonoultramicroscopicsilicovolcanoafrrraiz": 45 letters, and
\* hash = 3108 = hash("ae") = hash("c'")
W45 ==
  <<112,110,101,117,109,111,110,111,117,108,116,114,97,109,105,99,114,111,
    115,99,111,112,105,99,115,105,108,105,99,111,118,111,108,99,97,110,111,
    97,102,114,114,114,97,105,122>>

\* the same word with one more letter: 46 bytes
W46 == W45 \o <<115>>

\* "\n"
LineBlank == <<10>>

\* "Ae c'\n"
LineAe == <<65, 101, 32, 99, 39, 10>>

\* "b-B\n"
LineB == <<98, 45, 66, 10>>

\* "<W46> <W45>\n"
LineLong == W46 \o <<32>> \o W45 \o <<10>>

\* "a\0b\n"
LineNul == <<97, 0, 98, 10>>

\* lines without a NUL byte
TextLines == {LineBlank, LineAe, LineB, LineLong}

\* what getline may deliver
Lines == TextLines \cup {LineNul}

(* ---------------- C library ---------------- *)

isalpha(c) == (c \in 65..90) \/ (c \in 97..122)

tolower(c) == IF c \in 65..90 THEN c + 32 ELSE c

\* the C string that starts at the first byte of buf: the bytes before the
\* first NUL
CStr(buf) ==
  LET z == {i \in 1..Len(buf) : buf[i] = 0}
  IN  IF z = {} THEN buf
      ELSE SubSeq(buf, 1, (CHOOSE i \in z : \A j \in z : i <= j) - 1)

RECURSIVE strcmpFrom(_, _, _)
strcmpFrom(a, b, i) ==
  LET ca == IF i <= Len(a) THEN a[i] ELSE 0
      cb == IF i <= Len(b) THEN b[i] ELSE 0
  IN  IF ca # cb THEN ca - cb
      ELSE IF ca = 0 THEN 0
      ELSE strcmpFrom(a, b, i + 1)

strcmp(a, b) == strcmpFrom(a, b, 1)

\* sprintf("%d") of a non-negative int
RECURSIVE Decimal(_)
Decimal(n) ==
  IF n < 10 THEN <<48 + n>> ELSE Decimal(n \div 10) \o <<48 + (n % 10)>>

\* does needle occur in hay
Contains(hay, needle) ==
  \E i \in 1..(Len(hay) - Len(needle) + 1) :
     SubSeq(hay, i, i + Len(needle) - 1) = needle

\* strtok_r with the delimiter " " on the C string s: the token (<<>> for
\* NULL) and what saveptr then points at
strtok_r(s) ==
  LET nd == {i \in 1..Len(s) : s[i] # 32}
  IN  IF nd = {} THEN [token |-> <<>>, rest |-> <<>>]
      ELSE LET b == CHOOSE i \in nd : \A j \in nd : i <= j
               dl == {i \in b..Len(s) : s[i] = 32}
               e == IF dl = {} THEN Len(s) + 1
                    ELSE CHOOSE i \in dl : \A j \in dl : i <= j
           IN  [token |-> SubSeq(s, b, e - 1),
                rest  |-> SubSeq(s, e + 1, Len(s))]

(* ---------------- struct result_struct ---------------- *)

\* line_summary is the C string at s->line_summary: junk bytes that are
\* neither NUL, space nor digit (what malloc left there), then text.
\* junk = LONGEST_LINE_SUMMARY_LEN: no NUL inside the array.
EmptySummary == [junk |-> 0, text |-> <<>>]

\* what malloc's block may hold where line_summary lies: zeroes, the bytes
\* " 12 12" of an earlier line buffer, or no NUL at all
Garbage ==
  { EmptySummary,
    [junk |-> 0, text |-> <<32, 49, 50, 32, 49, 50>>],
    [junk |-> LONGEST_LINE_SUMMARY_LEN, text |-> <<>>] }

strlen_summary(s) == s.junk + Len(s.text)

\* the junk bytes written out (one representative value)
SummaryBytes(s) == [i \in 1..s.junk |-> 170] \o s.text

\* the C string at s->word: word[] holds no NUL when it is full, and the
\* string then runs on into line_summary, the next member
WordStr(r) ==
  IF Len(r.word) >= LONGEST_WORD_LEN
  THEN r.word \o SummaryBytes(r.line_summary)
  ELSE r.word

\* strcpy(s->word, name): bytes beyond word[] land in line_summary
strcpy_word(r, name) ==
  IF Len(name) < LONGEST_WORD_LEN
  THEN [r EXCEPT !.word = name]
  ELSE [r EXCEPT !.word = SubSeq(name, 1, LONGEST_WORD_LEN),
                 !.line_summary =
                    [junk |-> 0,
                     text |-> SubSeq(name, LONGEST_WORD_LEN + 1, Len(name))]]

(* ---------------- hash ---------------- *)

\* unsigned 32-bit h = 31*h + c, kept as two 16-bit halves
RECURSIVE hashLoop(_, _, _, _)
hashLoop(word, i, hi, lo) ==
  IF i > Len(word) THEN <<hi, lo>>
  ELSE LET l == 31 * lo + word[i]
       IN  hashLoop(word, i + 1, (31 * hi + (l \div 65536)) % 65536, l % 65536)

\* the unsigned value returned as int
hash(word) ==
  LET h == hashLoop(word, 1, 0, 0)
  IN  IF h[1] >= 32768 THEN (h[1] - 65536) * 65536 + h[2]
      ELSE h[1] * 65536 + h[2]

(* ---------------- add_result ---------------- *)

Rejected_long(name) == Len(name) > LONGEST_WORD_LEN + 1

\* reject outrageously long words
Rejected(name) == Len(name) > LONGEST_WORD_LEN

\* HASH_FIND_INT: the position of the record with this key, 0 for NULL
find_result(table, key) ==
  IF \E i \in 1..Len(table) : table[i].key = key
  THEN CHOOSE i \in 1..Len(table) : table[i].key = key
  ELSE 0

\* the rest of add_result on record r: set word, then append the line number
update_record(r, name, line_number_text) ==
  LET s == strcpy_word(r, name)
  IN  IF strlen_summary(s.line_summary) < LONGEST_LINE_SUMMARY_LEN - 16
         /\ ~Contains(s.line_summary.text, line_number_text)
      THEN [s EXCEPT !.line_summary.text = @ \o line_number_text]
      ELSE s

\* g: what the block malloc returns holds at line_summary
add_result(table, key, name, line_number_text, g) ==
  IF Rejected(name) THEN table
  ELSE LET i == find_result(table, key)
       IN  IF i = 0
           THEN Append(table,
                  update_record([key |-> key, word |-> <<>>, line_summary |-> g],
                                name, line_number_text))
           ELSE [table EXCEPT ![i] = update_record(@, name, line_number_text)]

(* ---------------- sort_by_name, print_results ---------------- *)

name_sort_reversed(a, b) == strcmp(WordStr(b), WordStr(a))

name_sort(a, b) == strcmp(WordStr(a), WordStr(b))

\* HASH_SORT is a stable sort of the application-order list
RECURSIVE InsertSorted(_, _)
InsertSorted(sorted, r) ==
  IF sorted = <<>> THEN <<r>>
  ELSE IF name_sort(sorted[Len(sorted)], r) <= 0 THEN Append(sorted, r)
  ELSE Append(InsertSorted(SubSeq(sorted, 1, Len(sorted) - 1), r),
              sorted[Len(sorted)])

RECURSIVE SortPrefix(_, _)
SortPrefix(table, n) ==
  IF n = 0 THEN <<>> ELSE InsertSorted(SortPrefix(table, n - 1), table[n])

sort_by_name(table) == SortPrefix(table, Len(table))

\* the two strings of each printf("%s%s\n", s->word, s->line_summary)
print_results(table) ==
  [i \in 1..Len(table) |->
     [word |-> WordStr(table[i]), line_summary |-> table[i].line_summary]]

(* ---------------- main ---------------- *)

\* " %d"
line_number_text(n) == <<32>> \o Decimal(n)

\* the scan of the incoming line: it stops at the first NUL
Normalise(line) ==
  LET n == Len(CStr(line))
  IN  [i \in 1..Len(line) |->
         IF i > n THEN line[i]
         ELSE IF ~isalpha(line[i]) /\ line[i] # 39 THEN 32
         ELSE tolower(line[i])]

(* ---------------- what the input holds ---------------- *)

IsWordByte(c) == isalpha(c) \/ c = 39

\* the k-th maximal run of letters and apostrophes of a line, lowercased
RunStarts(line) ==
  {i \in 1..Len(line) :
     IsWordByte(line[i]) /\ (i = 1 \/ ~IsWordByte(line[i - 1]))}

RunEnd(line, b) ==
  CHOOSE e \in b..Len(line) :
     /\ \A j \in b..e : IsWordByte(line[j])
     /\ (e = Len(line) \/ ~IsWordByte(line[e + 1]))

Runs(line) ==
  [k \in 1..Cardinality(RunStarts(line)) |->
     LET b == CHOOSE s \in RunStarts(line) :
                 Cardinality({t \in RunStarts(line) : t < s}) = k - 1
     IN  [i \in 1..(RunEnd(line, b) - b + 1) |-> tolower(line[b + i - 1])]]

(* ---------------- the program ---------------- *)

Init ==
  /\ pc = "read"
  /\ line_number = 0
  /\ results = <<>>
  /\ token = <<>>
  /\ saveptr = <<>>
  /\ raw = <<>>
  /\ nread = 0
  /\ lineCalls = <<>>
  /\ occ = {}
  /\ output = <<>>

\* getline delivers a line of ls; it is normalised and the first token
\* extracted
GetlineFrom(ls) ==
  /\ pc = "read"
  /\ line_number < MaxLines
  /\ \E line \in ls :
       LET tk == strtok_r(CStr(Normalise(line)))
       IN  /\ raw' = line
           /\ token' = tk.token
           /\ saveptr' = tk.rest
           /\ pc' = IF tk.token = <<>> THEN "read" ELSE "token"
           /\ occ' = occ \cup
                 { <<Runs(line)[k], nread + 1>> :
                     k \in { j \in 1..Len(Runs(line)) :
                               Len(Runs(line)[j]) <= 45 } }
  /\ line_number' = line_number + 1
  /\ nread' = nread + 1
  /\ lineCalls' = <<>>
  /\ UNCHANGED <<results, output>>

Getline == GetlineFrom(Lines)

\* getline returns -1: the loop ends
GetlineEOF ==
  /\ pc = "read"
  /\ line_number' = line_number + 1
  /\ pc' = "eof"
  /\ UNCHANGED <<results, token, saveptr, raw, nread, lineCalls, occ, output>>

\* the first getline is handed the uninitialised test_line: the process may
\* die there
GetlineFault ==
  /\ pc = "read"
  /\ line_number = 0
  /\ line_number' = line_number + 1
  /\ pc' = "fault"
  /\ UNCHANGED <<results, token, saveptr, raw, nread, lineCalls, occ, output>>

\* one turn of the token loop; gs: what a block of malloc may hold
AddTokenWith(gs) ==
  /\ pc = "token"
  /\ \E g \in gs :
       results' = add_result(results, hash(token), token,
                             line_number_text(line_number), g)
  /\ lineCalls' = Append(lineCalls, <<token, line_number_text(line_number)>>)
  /\ LET tk == strtok_r(saveptr)
     IN  /\ token' = tk.token
         /\ saveptr' = tk.rest
         /\ pc' = IF tk.token = <<>> THEN "read" ELSE "token"
  /\ UNCHANGED <<line_number, raw, nread, occ, output>>

AddToken == AddTokenWith(Garbage)

\* the strcpy of a word that fills word[] writes past it: a build that
\* checks the copy ends the process
StrcpyFault ==
  /\ pc = "token"
  /\ ~Rejected(token)
  /\ Len(token) >= LONGEST_WORD_LEN
  /\ pc' = "fault"
  /\ UNCHANGED <<line_number, results, token, saveptr, raw, nread, lineCalls,
                 occ, output>>

SortByName ==
  /\ pc = "eof"
  /\ results' = sort_by_name(results)
  /\ pc' = "sorted"
  /\ UNCHANGED <<line_number, token, saveptr, raw, nread, lineCalls, occ,
                 output>>

PrintResults ==
  /\ pc = "sorted"
  /\ output' = print_results(results)
  /\ pc' = "done"
  /\ UNCHANGED <<line_number, results, token, saveptr, raw, nread, lineCalls,
                 occ>>

Next ==
  \/ Getline
  \/ GetlineEOF
  \/ GetlineFault
  \/ AddToken
  \/ StrcpyFault
  \/ SortByName
  \/ PrintResults

Spec == Init /\ [][Next]_vars

(* ---------------- text input on a zeroed heap ---------------- *)

\* the runs of the program in which the input holds no NUL byte and every
\* block of malloc is zeroed
GetlineText == GetlineFrom(TextLines)

AddTokenZeroed == AddTokenWith({EmptySummary})

NextZeroed ==
  \/ GetlineText
  \/ GetlineEOF
  \/ GetlineFault
  \/ AddTokenZeroed
  \/ StrcpyFault
  \/ SortByName
  \/ PrintResults

SpecZeroed == Init /\ [][NextZeroed]_vars

(* ---------------- reading a line summary ---------------- *)

IsDigit(c) == c \in 48..57

DigitStarts(t) ==
  {i \in 1..Len(t) : IsDigit(t[i]) /\ (i = 1 \/ ~IsDigit(t[i - 1]))}

DigitEnd(t, b) ==
  CHOOSE e \in b..Len(t) :
     /\ \A j \in b..e : IsDigit(t[j])
     /\ (e = Len(t) \/ ~IsDigit(t[e + 1]))

RECURSIVE Value(_, _, _)
Value(t, b, e) == IF e < b THEN 0 ELSE 10 * Value(t, b, e - 1) + (t[e] - 48)

\* the line numbers a summary text lists, in order
Numbers(t) ==
  [k \in 1..Cardinality(DigitStarts(t)) |->
     LET b == CHOOSE s \in DigitStarts(t) :
                 Cardinality({u \in DigitStarts(t) : u < s}) = k - 1
     IN  Value(t, b, DigitEnd(t, b))]

\* a state right after add_result returned: the last entry of lineCalls is
\* the call, results is what it left
AfterCall == pc \in {"token", "read"} /\ lineCalls # <<>>

LastCall == lineCalls[Len(lineCalls)]

\* the tokens of at most 45 bytes the input held so far
TokensSeen == {p[1] : p \in occ}

\* the word of a report line as its reader sees it: up to the first space
ReportedWord(o) ==
  LET sp == {i \in 1..Len(o.word) : o.word[i] = 32}
  IN  IF sp = {} THEN o.word
      ELSE SubSeq(o.word, 1, (CHOOSE i \in sp : \A j \in sp : i <= j) - 1)

(* ---------------- the claims ---------------- *)

\* C1: when the input is consumed, every token of at most 45 bytes that
\* occurred on line n has a record keyed by its hash whose line summary
\* holds the marker " n".
C1_EveryOccurrenceIndexed ==
  pc = "done" =>
    \A p \in occ :
       \E i \in 1..Len(results) :
          /\ results[i].key = hash(p[1])
          /\ Contains(results[i].line_summary.text, line_number_text(p[2]))

\* C2: the report has exactly one line per distinct accepted token, each
\* such token is the word of exactly one line, and nothing is printed before
\* the input is consumed.
C2_OneLinePerWord ==
  /\ pc # "done" => output = <<>>
  /\ pc = "done" =>
       /\ Len(output) = Cardinality(TokensSeen)
       /\ \A t \in TokensSeen :
             Cardinality({i \in 1..Len(output) : output[i].word = t}) = 1

\* C3: the words of adjacent report lines are in ascending strcmp order.
C3_OutputOrdered ==
  \A i \in 1..(Len(output) - 1) :
     strcmp(output[i].word, output[i + 1].word) <= 0

\* C3 witness: "b" was first seen on line 2, after "c'" on line 1, and is
\* printed before it.
C3_Witness ==
  /\ pc = "done"
  /\ Len(output) = 2
  /\ output[1] = [word |-> <<98>>,
                  line_summary |-> [junk |-> 0, text |-> <<32, 50>>]]
  /\ output[2] = [word |-> <<99, 39>>,
                  line_summary |-> [junk |-> 0, text |-> <<32, 49>>]]

\* C4: right after add_result(word, n), a second add_result(word, n) leaves
\* every record as it is, and no line summary lists a line number twice.
C4_Idempotent ==
  /\ AfterCall =>
       \A g \in Garbage :
          add_result(results, hash(LastCall[1]), LastCall[1], LastCall[2], g)
            = results
  /\ \A i \in 1..Len(results) :
        LET ns == Numbers(results[i].line_summary.text)
        IN  \A j, k \in 1..Len(ns) : j # k => ns[j] # ns[k]

\* C5: add_result of a word longer than 45 bytes leaves the whole index
\* unchanged, and no report line carries a word of 46 or more bytes.
C5_OversizeRejected ==
  /\ [][(pc = "token" /\ Len(token) > 45) => results' = results]_vars
  /\ [](\A i \in 1..Len(output) : Len(ReportedWord(output[i])) <= 45)

\* C5 witness: the last line read held the 46-byte word, an index that was
\* not empty went through that call, and the report is printed.
C5_Witness ==
  /\ pc = "done"
  /\ raw = LineLong
  /\ nread >= 2
  /\ Len(output) >= 2

\* C6: once a record's line summary is 16535 - 16 bytes long or longer, no
\* later add_result changes that record's line summary.
C6_TruncationPermanent ==
  [][pc = "token" =>
       \A i \in 1..Len(results) :
          strlen_summary(results[i].line_summary)
             >= LONGEST_LINE_SUMMARY_LEN - 16
          => results'[i].line_summary = results[i].line_summary]_vars

\* C7: when a line is done, the calls of add_result made for it are, in
\* order, the maximal runs of letters and apostrophes of the line,
\* lowercased, each with the 1-based number of the line; a line without
\* such a run makes no call and still counts.
C7_CallsAreRuns ==
  /\ pc \in {"read", "token"} => line_number = nread
  /\ (pc = "read" /\ nread > 0) =>
        lineCalls =
          [k \in 1..Len(Runs(raw)) |->
             <<Runs(raw)[k], line_number_text(nread)>>]

\* C8: the add_result that creates the record of a key leaves its line
\* summary as exactly " n".
C8_NewSummaryIsMarker ==
  [][(pc = "token" /\ pc' # "fault" /\ ~Rejected(token)
      /\ find_result(results, hash(token)) = 0)
     => results'[Len(results')].line_summary
          = [junk |-> 0, text |-> line_number_text(line_number)]]_vars

\* C9: every line summary, with its terminator, fits in the 16535 bytes of
\* line_summary.
C9_SummaryFits ==
  \A i \in 1..Len(results) :
     strlen_summary(results[i].line_summary) + 1 <= LONGEST_LINE_SUMMARY_LEN

\* C10: under main, every line summary lists its line numbers in strictly
\* increasing order, and after add_result(word, n) on a summary below the
\* truncation threshold the number n itself is listed.
C10_MarkersIncreasing ==
  /\ \A i \in 1..Len(results) :
        LET ns == Numbers(results[i].line_summary.text)
        IN  \A j, k \in 1..Len(ns) : j < k => ns[j] < ns[k]
  /\ (AfterCall /\ ~Rejected(LastCall[1])) =>
        LET r == results[find_result(results, hash(LastCall[1]))]
        IN  strlen_summary(r.line_summary) < LONGEST_LINE_SUMMARY_LEN - 16
            => \E k \in 1..Len(Numbers(r.line_summary.text)) :
                  Numbers(r.line_summary.text)[k] = line_number

====
